---- MODULE Spec2Model ----
(***************************************************************************)
(* Model of the mail triage poller: smart_email_assistant.py               *)
(* (start_email_monitoring, process_single_email and the persistence       *)
(* helpers), notification_system.py (send_notifications_for_batch and the  *)
(* three channel senders), priority_system.py (calculate_priority) and     *)
(* email_fetcher.py (fetch_emails_since).                                  *)
(*                                                                         *)
(* Time is counted in ticks of 60 seconds, so the 60 second overlap of the *)
(* fetch window is one tick and the first-run window of 0.17 days is 245   *)
(* ticks.  An absent or unreadable checkpoint file reads as None, which    *)
(* the loop tests with "if last_check_ts"; None is written 0 here and the  *)
(* clock starts at 1.                                                      *)
(***************************************************************************)
EXTENDS Integers, Sequences, FiniteSets, TLC

\* ------------------------------------------------------------------ bounds
NumMsgs == 3
MaxTime == 3
\* failures injected in one run: failed or raising calls to the mailbox, the
\* channels and the files, escaped exceptions, kills of the process
MaxFaults == 2
MaxBatch == 2
\* max_results=30 of the monitoring fetch, scaled down
FetchLimit == 2
\* longest subject, body and keyword
MaxLen == 1
\* greatest score categorized
MaxScore == 130
\* retention cap 2000 and kept suffix 1500 of the ledger trim, scaled down
TrimCap == 2
TrimKeep == 1
\* longest check interval and longest cycle, in seconds
MaxInterval == 40
MaxElapsed == 40

\* ------------------------------------------------------- program constants
Overlap == 1
FirstWindow == 245
DefaultCritical == 75
DefaultHigh == 50
MediumThreshold == 20
SleepFloor == 15
\* run_digest: one day in ticks, and the default max_results of the fetcher
DigestWindow == 1440
DigestLimit == 50

None == 0
NotArrived == -1
\* a message record without the key priority_score
NoScore == -1
Ids == 1..NumMsgs
Channels == {"whatsapp", "push", "email_alert"}
Tiers == {"critical", "high", "medium", "low"}
Categories == Tiers \cup {"Error"}

\* ---------------------------------------------------------------- text
\* Subjects, bodies, addresses and keywords are strings over two letters, "K"
\* being the upper case of "k".
Letters == {"k", "K"}

RECURSIVE Strings(_)
Strings(n) ==
  IF n = 0 THEN {<<>>}
  ELSE LET S == Strings(n - 1)
       IN  S \cup {Append(t, c) : t \in {x \in S : Len(x) = n - 1}, c \in Letters}

\* str.lower()
RECURSIVE Lower(_)
Lower(t) ==
  IF t = <<>> THEN <<>>
  ELSE <<IF Head(t) = "K" THEN "k" ELSE Head(t)>> \o Lower(Tail(t))

\* the test "t in text" of two strings
Contains(text, t) ==
  \E i \in 0..(Len(text) - Len(t)) : SubSeq(text, i + 1, i + Len(t)) = t

\* any(x in text for x in list)
AnyIn(list, text) == \E j \in DOMAIN list : Contains(text, list[j])

\* ------------------------------------------------------------ priority
Max2(a, b) == IF a >= b THEN a ELSE b

\* the fields of a message record that calculate_priority reads: the results of
\* the annotation and the header and body text
Email(c, i, s, a, from, subject, content, to) ==
  [classification |-> c, intent |-> i, sentiment |-> s, action_items |-> a,
   from |-> from, subject |-> subject, content |-> content, to |-> to,
   priority_score |-> NoScore]

ClassificationTerm(classification) ==
  CASE classification = "Urgent Action" -> 40
    [] classification = "Work" -> 10
    [] classification = "Personal" -> 5
    [] classification \in {"Promotion/Newsletter", "Spam"} -> -10
    [] OTHER -> 0

\* a sender term without the bonus for a negative message
SenderTermFlat(is_vip, sentiment) == IF is_vip THEN 40 ELSE 0

SenderTerm(is_vip, sentiment) ==
  IF is_vip THEN 40 + (IF sentiment = "Negative" THEN 10 ELSE 0) ELSE 0

IntentTerm(intent) ==
  CASE intent = "Request for Action" -> 15
    [] intent = "Problem Report" -> 10
    [] intent = "Meeting/Scheduling" -> 5
    [] OTHER -> 0

\* the subject and the body are lower-cased, the keywords are taken as they
\* stand in the configuration
KeywordTerm(subject, content, urgent_keywords) ==
  IF AnyIn(urgent_keywords, Lower(subject)) THEN 15
  ELSE IF AnyIn(urgent_keywords, Lower(content)) THEN 10
  ELSE 0

\* the sum before the clamp.  The sender address is lower-cased and so are
\* the VIP contacts and the user's address; the "<...>" part of a From header
\* is cut out first, which the addresses used here do not have.
base_score(email_data, cfg) ==
  LET sender_email == Lower(email_data.from)
      is_vip == \E j \in DOMAIN cfg.vip_contacts :
                  Contains(sender_email, Lower(cfg.vip_contacts[j]))
      user_email_lower == Lower(cfg.user_email)
      to_field == Lower(email_data.to)
  IN  ClassificationTerm(email_data.classification)
      + SenderTerm(is_vip, email_data.sentiment)
      + IntentTerm(email_data.intent)
      + KeywordTerm(email_data.subject, email_data.content, cfg.custom_keywords)
      + (IF user_email_lower # <<>> /\ Contains(to_field, user_email_lower)
         THEN 5 ELSE 0)
      + (IF email_data.action_items # <<>> THEN 5 ELSE 0)

\* the score without its floor
calculate_priority_unclamped(email_data, cfg) == base_score(email_data, cfg)

\* a score that starts from the one the record already carries
calculate_priority_accumulating(email_data, cfg) ==
  Max2(0, (IF email_data.priority_score = NoScore THEN 0
           ELSE email_data.priority_score) + base_score(email_data, cfg))

calculate_priority(email_data, cfg) == Max2(0, base_score(email_data, cfg))

\* the record calculate_priority leaves behind: it stores the score under
\* priority_score in the dictionary it was given
scored_record(email_data, cfg) ==
  [email_data EXCEPT !.priority_score = calculate_priority(email_data, cfg)]

\* a categorizer that tests the high threshold first
priority_category_high_first(score, cfg) ==
  IF score >= cfg.push_threshold THEN "high"
  ELSE IF score >= cfg.whatsapp_threshold THEN "critical"
  ELSE IF score >= MediumThreshold THEN "medium"
  ELSE "low"

\* a categorizer whose boundaries belong to the tier below
priority_category_exclusive(score, cfg) ==
  IF score > cfg.whatsapp_threshold THEN "critical"
  ELSE IF score > cfg.push_threshold THEN "high"
  ELSE IF score > MediumThreshold THEN "medium"
  ELSE "low"

\* the category assignment at the end of process_single_email
priority_category(score, cfg) ==
  IF score >= cfg.whatsapp_threshold THEN "critical"
  ELSE IF score >= cfg.push_threshold THEN "high"
  ELSE IF score >= MediumThreshold THEN "medium"
  ELSE "low"

\* a categorizer whose thresholds are exclusive
categorize_emails_strict(score, cfg) ==
  IF score > cfg.whatsapp_threshold THEN "critical"
  ELSE IF score > cfg.push_threshold THEN "high"
  ELSE IF score > MediumThreshold THEN "medium"
  ELSE "low"

\* the tier categorize_emails gives a message with this score
categorize_emails(score, cfg) ==
  IF score >= cfg.whatsapp_threshold THEN "critical"
  ELSE IF score >= cfg.push_threshold THEN "high"
  ELSE IF score >= MediumThreshold THEN "medium"
  ELSE "low"

\* annotated messages the poller meets: a critical and a low one
MonitorSignals ==
  { Email("Urgent Action", "Request for Action", "Neutral", <<"item">>,
          <<"k">>, <<"k">>, <<>>, <<>>),
    Email("Spam", "Other", "Neutral", <<>>, <<"k">>, <<>>, <<>>, <<>>) }

\* process_single_email: the processed record of message id.  raised is an
\* exception inside the try block, which yields the category Error.
process_single_email(id, sig, raised, cfg) ==
  [id |-> id,
   priority_category |->
     IF raised THEN "Error"
     ELSE priority_category(calculate_priority(sig, cfg), cfg)]

\* ------------------------------------------------------------ configuration
\* what setup_config writes besides the channel switches: no VIP contact,
\* lower-case keywords, the default thresholds; no key for the medium
\* threshold exists, medium_threshold is what a user may add for it
MkConfig(en, nf) ==
  [enabled |-> en, notify_for |-> nf,
   whatsapp_threshold |-> DefaultCritical, push_threshold |-> DefaultHigh,
   medium_threshold |-> MediumThreshold,
   vip_contacts |-> <<>>, custom_keywords |-> << <<"k">> >>,
   user_email |-> <<>>]

\* notify_*_for defaults of send_notifications_for_batch
DefaultNotifyFor ==
  [ch \in Channels |->
     CASE ch = "whatsapp" -> {"critical"}
       [] ch = "push" -> {"critical", "high"}
       [] OTHER -> {"critical"}]

\* the configuration the poller runs with: what setup_config writes when only
\* the instant message channel is switched on
MonitorConfig ==
  MkConfig([ch \in Channels |-> ch = "whatsapp"], DefaultNotifyFor)

TriggerChoices == { {}, {"critical"}, {"critical", "high"} }

RouterConfigs ==
  { MkConfig(en, nf) : en \in [Channels -> BOOLEAN],
                       nf \in [Channels -> TriggerChoices] }

\* ------------------------------------------------------------------- state
VARIABLES
  now,                    \* wall clock, in ticks
  arrival,                \* mailbox: arrival tick of each message id
  idsFile,                \* contents of processed_email_ids.json
  ckFile,                 \* contents of last_check_timestamp.txt
  config,
  pc,                     \* position of the poller
  processed_ids,          \* the in-memory ledger
  start_time,
  last_check_ts,
  raw_emails,
  new_emails_to_process,
  processed_this_cycle,
  nidx,                   \* index of the next message of the batch to route
  notified_types,
  sendLog,                \* channel evaluations of the current pass
  fetch_ok,               \* whether this cycle's fetch reached the mailbox
  ids_saved,              \* whether this cycle's first ledger save succeeded
  everProcessed,          \* ids process_single_email has run for
  everSent,               \* <<id, channel>> of every send that got through
  insertOrder,            \* ids in the order of their latest insertion
  hist,                   \* whether everSent and insertOrder are recorded
  email_data,             \* the message record handed to calculate_priority
  priority_score,
  category,
  stop_requested,         \* whether the operator has asked the poller to stop
  emails,                 \* the batch handed to categorize_emails
  priority_levels,        \* the groups categorize_emails returns
  check_interval,         \* seconds between two cycles, from the configuration
  elapsed_time,           \* seconds the cycle took
  sleep_time,             \* seconds handed to time.sleep
  score_calls,            \* calls of calculate_priority per message id in this cycle
  dpc,                    \* position of the digest task
  digest_emails,          \* the messages run_digest has fetched
  raw_email,              \* the record handed to process_single_email
  processed_email,        \* the record process_single_email returns
  faults                  \* failures injected so far

vars == <<now, arrival, idsFile, ckFile, config, pc, processed_ids, start_time,
          last_check_ts, raw_emails, new_emails_to_process,
          processed_this_cycle, nidx, notified_types, sendLog, fetch_ok,
          ids_saved, everProcessed, everSent, hist, insertOrder, faults,
          email_data, priority_score, category, stop_requested, emails,
          priority_levels,
          check_interval,
          elapsed_time,
          sleep_time,
          score_calls,
          dpc,
          digest_emails,
          raw_email,
          processed_email>>

\* -------------------------------------------------------------- persistence
\* The ledger file holds list(ids_set); load_processed_ids turns it back into
\* a set, so the file is kept as the set of its elements.  An empty or
\* undecodable file loads as the empty set.
load_processed_ids(file) == file

SaveOutcomes == {"ok", "open_failed", "write_failed"}

\* open(..., 'w') truncates before json.dump writes: a failure after the open
\* leaves an empty file; every exception is caught and printed
save_processed_ids(file, ids_set, o) ==
  CASE o = "ok" -> ids_set
    [] o = "open_failed" -> file
    [] OTHER -> {}

\* float(f.read().strip()); an empty or invalid file gives None
get_last_check_time(file) == file

\* a checkpoint write that stores the time of the write, not its argument
save_end_time(file, timestamp, o) ==
  CASE o = "ok" -> now
    [] o = "open_failed" -> file
    [] OTHER -> None

\* f.write(str(timestamp)) into a file opened with 'w'; every exception is
\* caught and printed
save_last_check_time(file, timestamp, o) ==
  CASE o = "ok" -> timestamp
    [] o = "open_failed" -> file
    [] OTHER -> None

\* ------------------------------------------------------------------- fetch
SetMax(S) == CHOOSE m \in S : \A x \in S : x <= m

RECURSIVE NewestFirst(_)
NewestFirst(S) ==
  IF S = {} THEN <<>> ELSE LET m == SetMax(S) IN <<m>> \o NewestFirst(S \ {m})

Take(s, n) == IF Len(s) <= n THEN s ELSE SubSeq(s, 1, n)

\* messages matching "after:<since>"
InWindow(since) ==
  {m \in Ids : arrival[m] # NotArrived /\ arrival[m] >= since}

\* what messages().list(maxResults) may answer: the newest maxResults ids of
\* the window; nothing in fetch_emails_since removes an id listed twice
Listings(since, max_results) ==
  LET L == NewestFirst(InWindow(since))
  IN  IF L = <<>> THEN {<<>>}
      ELSE {Take(L, max_results), Take(<<Head(L)>> \o L, max_results)}

HasRepeat(L) == \E a, b \in DOMAIN L : a # b /\ L[a] = L[b]

\* the detail loop: a message whose get() raises is skipped
RECURSIVE Details(_, _, _)
Details(L, got, k) ==
  IF k > Len(L) THEN <<>>
  ELSE (IF k \in got THEN <<L[k]>> ELSE <<>>) \o Details(L, got, k + 1)

\* every list fetch_emails_since can return, with the number of failures it
\* took; ok = FALSE is an authentication, service build or listing error,
\* which returns the empty list
fetch_emails_since(since, max_results, ok) ==
  IF ~ok THEN {[emails |-> <<>>, failures |-> 1]}
  ELSE UNION { {[emails |-> Details(L, got, 1),
                 failures |-> (Len(L) - Cardinality(got))
                              + (IF HasRepeat(L) THEN 1 ELSE 0)] :
                  got \in SUBSET (1..Len(L))} :
               L \in Listings(since, max_results) }

\* the filter left out: every fetched message is taken as new
KeepAllFetched(ids_set, raw) == raw

\* the filter of the fetched batch: ids absent from the ledger, in order
NotInLedger(ids_set, raw) == SelectSeq(raw, LAMBDA x : x \notin ids_set)

\* ------------------------------------------------------------------ router
ChannelOrder == <<"whatsapp", "push", "email_alert">>

NetOutcomes(ch) == IF ch = "email_alert" THEN {"ok", "fail", "raise"} ELSE {"ok", "fail"}

\* the sender without its try block: a transport error escapes to the caller
send_whatsapp_unguarded(cfg, net) ==
  IF ~cfg.enabled["whatsapp"] THEN "failed"
  ELSE IF net = "ok" THEN "sent" ELSE "raised"

\* send_whatsapp_notification: False when the channel is disabled or anything
\* fails; every exception is caught inside
send_whatsapp_notification(cfg, net) ==
  IF cfg.enabled["whatsapp"] /\ net = "ok" THEN "sent" ELSE "failed"

send_push_notification(cfg, net) ==
  IF cfg.enabled["push"] /\ net = "ok" THEN "sent" ELSE "failed"

\* send_email_notification: no enabled test; building the MIME message is
\* outside its try block, so an exception there escapes to the caller
send_email_notification(cfg, net) ==
  CASE net = "ok" -> "sent"
    [] net = "raise" -> "raised"
    [] OTHER -> "failed"

Send(ch, cfg, net) ==
  CASE ch = "whatsapp" -> send_whatsapp_notification(cfg, net)
    [] ch = "push" -> send_push_notification(cfg, net)
    [] OTHER -> send_email_notification(cfg, net)

\* whether the sender gets as far as the network: the instant message and
\* push senders return early when their channel is disabled
ReachesTransport(ch, cfg) == ch = "email_alert" \/ cfg.enabled[ch]

LogEntry(i, id, ch, res) == [i |-> i, id |-> id, ch |-> ch, res |-> res]

\* a router that tries a channel again when its send returned False
RECURSIVE DispatchRetry(_, _, _, _, _, _)
DispatchRetry(k, i, email, cfg, net, fired) ==
  IF k > Len(ChannelOrder) THEN [log |-> <<>>, fired |-> fired, failures |-> 0]
  ELSE
    LET ch == ChannelOrder[k]
        should_send == email.priority_category \in cfg.notify_for[ch]
        rest(fd) == DispatchRetry(k + 1, i, email, cfg, net, fd)
    IN  IF should_send /\ ch \notin fired
        THEN LET res == Send(ch, cfg, net[ch])
                 e == LogEntry(i, email.id, ch, res)
                 f == IF net[ch] = "ok" \/ ~ReachesTransport(ch, cfg) THEN 0 ELSE 1
             IN  IF res = "raised"
                 THEN [log |-> <<e>>, fired |-> fired, failures |-> f]
                 ELSE IF res = "failed"
                 THEN [log |-> <<e, e>> \o rest(fired).log,
                       fired |-> rest(fired).fired,
                       failures |-> f + rest(fired).failures]
                 ELSE [log |-> <<e>> \o rest(fired \cup {ch}).log,
                       fired |-> rest(fired \cup {ch}).fired,
                       failures |-> f + rest(fired \cup {ch}).failures]
        ELSE [log |-> <<LogEntry(i, email.id, ch, "skipped")>> \o rest(fired).log,
              fired |-> rest(fired).fired, failures |-> rest(fired).failures]

\* the body of the per-message try block: the three channel checks in order.
\* Returns the evaluations made, the final notified_types and the number of
\* sends that did not get through.
RECURSIVE DispatchFrom(_, _, _, _, _, _)
DispatchFrom(k, i, email, cfg, net, fired) ==
  IF k > Len(ChannelOrder) THEN [log |-> <<>>, fired |-> fired, failures |-> 0]
  ELSE
    LET ch == ChannelOrder[k]
        should_send == email.priority_category \in cfg.notify_for[ch]
    IN  IF should_send /\ ch \notin fired
        THEN LET res == Send(ch, cfg, net[ch])
                 e == LogEntry(i, email.id, ch, res)
                 f == IF net[ch] = "ok" \/ ~ReachesTransport(ch, cfg) THEN 0 ELSE 1
             IN  IF res = "raised"
                 THEN [log |-> <<e>>, fired |-> fired, failures |-> f]
                 ELSE LET rest == DispatchFrom(k + 1, i, email, cfg, net,
                                    IF res = "sent" THEN fired \cup {ch} ELSE fired)
                      IN  [log |-> <<e>> \o rest.log, fired |-> rest.fired,
                           failures |-> f + rest.failures]
        ELSE LET rest == DispatchFrom(k + 1, i, email, cfg, net, fired)
             IN  [log |-> <<LogEntry(i, email.id, ch, "skipped")>> \o rest.log,
                  fired |-> rest.fired, failures |-> rest.failures]

\* the <<id, channel>> pairs of the sends of a log that got through
SentPairs(log) ==
  {<<log[k].id, log[k].ch>> : k \in {j \in DOMAIN log : log[j].res = "sent"}}

\* what the network does to the sends of one message
NetChoices ==
  {n \in [Channels -> {"ok", "fail", "raise"}] :
     \A ch \in Channels : n[ch] \in NetOutcomes(ch)}

\* a set of fired channels carried over from one message to the next
keep_fired(fired) == fired

\* notified_types.clear(), the first statement for each message of the batch
clear(fired) == {}

\* the results send_notifications_for_batch can have for one message
Dispatches(i, email, cfg) ==
  {DispatchFrom(1, i, email, cfg, net, clear(notified_types)) :
     net \in NetChoices}

\* ------------------------------------------------------------------ poller
Init ==
  /\ now = 1
  /\ arrival = [m \in Ids |-> NotArrived]
  /\ idsFile = {}
  /\ ckFile = None
  /\ config = MonitorConfig
  /\ pc = "boot"
  /\ processed_ids = {}
  /\ start_time = None
  /\ last_check_ts = None
  /\ raw_emails = <<>>
  /\ new_emails_to_process = <<>>
  /\ processed_this_cycle = <<>>
  /\ nidx = 1
  /\ notified_types = {}
  /\ sendLog = <<>>
  /\ fetch_ok = TRUE
  /\ ids_saved = FALSE
  /\ everProcessed = {}
  /\ everSent = {}
  /\ insertOrder = <<>>
  /\ hist = FALSE
  /\ stop_requested = FALSE
  /\ email_data = None
  /\ priority_score = None
  /\ category = "low"
  /\ emails = <<>>
  /\ priority_levels = None
  /\ processed_email = None
  /\ raw_email = None
  /\ digest_emails = <<>>
  /\ dpc = "idle"
  /\ score_calls = [m \in Ids |-> 0]
  /\ sleep_time = None
  /\ elapsed_time = None
  /\ check_interval = None
  /\ faults = 0

\* a message reaches the mailbox; ids are handed out in arrival order.  Within
\* one tick only the order of an arrival and the fetch matters, so arrivals are
\* taken before the fetch (top) or after the cycle (sleep).
Arrive ==
  /\ pc \in {"top", "sleep"}
  /\ \E m \in Ids :
       /\ arrival[m] = NotArrived
       /\ \A k \in Ids : k < m => arrival[k] # NotArrived
       /\ arrival' = [arrival EXCEPT ![m] = now]
  /\ UNCHANGED <<now, idsFile, ckFile, config, pc, processed_ids, start_time,
                 last_check_ts, raw_emails, new_emails_to_process,
                 processed_this_cycle, nidx, notified_types, sendLog, fetch_ok,
                 ids_saved, everProcessed, everSent, hist, email_data,
                 priority_score, category, insertOrder, faults,
                 stop_requested, emails, priority_levels,
                 check_interval,
                 elapsed_time,
                 sleep_time,
                 score_calls,
                 dpc,
                 digest_emails,
                 raw_email,
                 processed_email>>

\* start_email_monitoring up to the loop: the ledger is loaded once
Boot ==
  /\ pc = "boot"
  /\ processed_ids' = load_processed_ids(idsFile)
  /\ pc' = "top"
  /\ UNCHANGED <<now, arrival, idsFile, ckFile, config, start_time,
                 last_check_ts, raw_emails, new_emails_to_process,
                 processed_this_cycle, nidx, notified_types, sendLog, fetch_ok,
                 ids_saved, everProcessed, everSent, hist, email_data,
                 priority_score, category, insertOrder, faults,
                 stop_requested, emails, priority_levels,
                 check_interval,
                 elapsed_time,
                 sleep_time,
                 score_calls,
                 dpc,
                 digest_emails,
                 raw_email,
                 processed_email>>

\* a window that starts at the checkpoint itself
fetch_since_checkpoint(last) == last

\* fetch_since_ts = last_check_ts - 60: the window goes back one minute
fetch_since_ts(last) == last - Overlap

\* top of the loop: start_time, the fetch window, the fetch and the filter of
\* the fetched batch against the ledger
FetchCycle ==
  /\ pc = "top"
  /\ start_time' = now
  /\ last_check_ts' = get_last_check_time(ckFile)
  /\ \E ok \in BOOLEAN :
       LET since == IF last_check_ts' # None THEN fetch_since_ts(last_check_ts')
                    ELSE now - FirstWindow
       IN  /\ fetch_ok' = ok
           /\ \E r \in fetch_emails_since(since, FetchLimit, ok) :
                /\ faults + r.failures <= MaxFaults
                /\ faults' = faults + r.failures
                /\ raw_emails' = r.emails
  /\ new_emails_to_process' = NotInLedger(processed_ids, raw_emails')
  /\ processed_this_cycle' = <<>>
  /\ nidx' = 1
  /\ notified_types' = {}
  /\ sendLog' = <<>>
  /\ ids_saved' = FALSE
  /\ score_calls' = [m \in Ids |-> 0]
  /\ pc' = IF new_emails_to_process' = <<>> THEN "save" ELSE "process"
  /\ UNCHANGED <<now, arrival, idsFile, ckFile, config, processed_ids,
                 everProcessed, everSent, hist, email_data,
                 priority_score, category, insertOrder,
                 stop_requested, emails, priority_levels,
                 check_interval,
                 elapsed_time,
                 sleep_time,
                 dpc,
                 digest_emails,
                 raw_email,
                 processed_email>>

\* a loop that gives the cycle up when a record comes back as Error
abort_on_error(rec, k, n) ==
  IF rec.priority_category = "Error" THEN "sleep"
  ELSE IF k = n THEN "notify" ELSE "process"

\* where the processing loop goes after message k of n: on to the next
\* message, or to the batch notification, whatever the record holds
next_after_processing(rec, k, n) == IF k = n THEN "notify" ELSE "process"

\* how often process_single_email calls calculate_priority: once, at the end
\* of the annotation steps; an exception raised by a step before it leaves the
\* call out, one raised by it or after it does not
calls_of_calculate_priority(raised) == IF raised THEN {0, 1} ELSE {1}

\* one iteration of the processing loop: process_single_email, then the id is
\* appended to processed_this_cycle and added to processed_ids.  The fetched
\* list is not read again and is dropped.
ProcessOne ==
  /\ pc = "process"
  /\ LET k == Len(processed_this_cycle) + 1
         id == new_emails_to_process[k]
     IN  /\ \E sig \in MonitorSignals, raised \in BOOLEAN :
               /\ raised => faults < MaxFaults
               /\ faults' = faults + (IF raised THEN 1 ELSE 0)
               /\ processed_this_cycle' =
                    Append(processed_this_cycle,
                           process_single_email(id, sig, raised, config))
               /\ \E n \in calls_of_calculate_priority(raised) :
                    score_calls' = IF hist
                                   THEN [score_calls EXCEPT ![id] = @ + n]
                                   ELSE score_calls
         /\ processed_ids' = processed_ids \cup {id}
         /\ everProcessed' = everProcessed \cup {id}
         /\ insertOrder' = IF hist /\ id \notin processed_ids
                           THEN Append(SelectSeq(insertOrder, LAMBDA x : x # id), id)
                           ELSE insertOrder
         /\ pc' = next_after_processing(
                     processed_this_cycle'[k], k, Len(new_emails_to_process))
  /\ raw_emails' = <<>>
  /\ UNCHANGED <<now, arrival, idsFile, ckFile, config, start_time,
                 last_check_ts, new_emails_to_process, nidx, notified_types,
                 sendLog, fetch_ok, ids_saved, everSent, hist, email_data,
                 priority_score, category,
                 stop_requested, emails, priority_levels,
                 check_interval,
                 elapsed_time,
                 sleep_time,
                 dpc,
                 digest_emails,
                 raw_email,
                 processed_email>>

\* one iteration of the loop of send_notifications_for_batch
NotifyOne ==
  /\ pc = "notify"
  /\ nidx <= Len(processed_this_cycle)
  /\ \E d \in Dispatches(nidx, processed_this_cycle[nidx], config) :
       /\ faults + d.failures <= MaxFaults
       /\ faults' = faults + d.failures
       /\ sendLog' = sendLog \o d.log
       /\ notified_types' = d.fired
       /\ everSent' = IF hist THEN everSent \cup SentPairs(d.log) ELSE everSent
  /\ nidx' = nidx + 1
  /\ pc' = IF nidx = Len(processed_this_cycle) THEN "save" ELSE "notify"
  /\ UNCHANGED <<now, arrival, idsFile, ckFile, config, processed_ids,
                 start_time, last_check_ts, raw_emails, new_emails_to_process,
                 processed_this_cycle, fetch_ok, ids_saved, everProcessed,
                 hist, email_data,
                 priority_score, category, insertOrder,
                 stop_requested, emails, priority_levels,
                 check_interval,
                 elapsed_time,
                 sleep_time,
                 score_calls,
                 dpc,
                 digest_emails,
                 raw_email,
                 processed_email>>

\* a save whose failure ends the loop
save_ends_loop(o) == IF o = "ok" THEN "trim" ELSE "halted"

\* save_processed_ids catches every exception and returns: the statement
\* after the call runs whatever the outcome of the write
after_save(o) == "trim"

\* save_processed_ids(processed_ids) after the batch.  The batch and the
\* router's locals are dead from here on and are dropped.
SaveIds ==
  /\ pc = "save"
  /\ \E o \in SaveOutcomes :
       /\ o # "ok" => faults < MaxFaults
       /\ faults' = faults + (IF o = "ok" THEN 0 ELSE 1)
       /\ idsFile' = save_processed_ids(idsFile, processed_ids, o)
       /\ ids_saved' = (o = "ok")
       /\ pc' = after_save(o)
  /\ raw_emails' = <<>>
  /\ new_emails_to_process' = <<>>
  /\ processed_this_cycle' = <<>>
  /\ nidx' = 1
  /\ notified_types' = {}
  /\ sendLog' = <<>>
  /\ UNCHANGED <<now, arrival, ckFile, config, processed_ids, start_time,
                 last_check_ts, fetch_ok, everProcessed, everSent, hist, email_data,
                 priority_score, category, insertOrder,
                 stop_requested, emails, priority_levels,
                 check_interval,
                 elapsed_time,
                 sleep_time,
                 score_calls,
                 dpc,
                 digest_emails,
                 raw_email,
                 processed_email>>

\* a trim whatever the size of the ledger
TrimsAlways(ids_set) == TRUE

\* the test in front of the trim: len(processed_ids) > 2000
NeedsTrim(ids_set) == Cardinality(ids_set) > TrimCap

\* a slice that starts at the kept length: list(ids_set)[1500:]
kept_by_head_slice(ids_set) ==
  {keep \in SUBSET ids_set :
     Cardinality(keep) = Max2(0, Cardinality(ids_set) - TrimKeep)}

\* what set(list(ids_set)[-1500:]) can be: the last 1500 elements of a list
\* of distinct ids in an arbitrary order
kept_by_trim(ids_set) ==
  {keep \in SUBSET ids_set :
     Cardinality(keep) = IF Cardinality(ids_set) < TrimKeep
                         THEN Cardinality(ids_set) ELSE TrimKeep}

\* the trim: list(processed_ids)[-1500:] of a set, whose iteration order is
\* arbitrary, then the second save
Trim ==
  /\ pc = "trim"
  /\ IF NeedsTrim(processed_ids)
     THEN /\ \E keep \in kept_by_trim(processed_ids) :
               processed_ids' = keep
          /\ \E o \in SaveOutcomes :
               /\ o # "ok" => faults < MaxFaults
               /\ faults' = faults + (IF o = "ok" THEN 0 ELSE 1)
               /\ idsFile' = save_processed_ids(idsFile, processed_ids', o)
     ELSE UNCHANGED <<processed_ids, idsFile, faults,
                 stop_requested, emails, priority_levels,
                 check_interval,
                 elapsed_time,
                 sleep_time,
                 score_calls,
                 dpc,
                 digest_emails,
                 raw_email,
                 processed_email>>
  /\ pc' = "ckpt"
  /\ UNCHANGED <<now, arrival, ckFile, config, start_time, last_check_ts,
                 raw_emails, new_emails_to_process, processed_this_cycle, nidx,
                 notified_types, sendLog, fetch_ok, ids_saved, everProcessed, everSent, hist, email_data,
                 priority_score, category, insertOrder,
                 stop_requested, emails, priority_levels,
                 check_interval,
                 elapsed_time,
                 sleep_time,
                 score_calls,
                 dpc,
                 digest_emails,
                 raw_email,
                 processed_email>>

\* save_last_check_time(start_time), the last statement of the try block
SaveCheckpoint ==
  /\ pc = "ckpt"
  /\ \E o \in SaveOutcomes :
       /\ o # "ok" => faults < MaxFaults
       /\ faults' = faults + (IF o = "ok" THEN 0 ELSE 1)
       /\ ckFile' = save_last_check_time(ckFile, start_time, o)
  /\ pc' = "sleep"
  /\ UNCHANGED <<now, arrival, idsFile, config, processed_ids, start_time,
                 last_check_ts, raw_emails, new_emails_to_process,
                 processed_this_cycle, nidx, notified_types, sendLog, fetch_ok,
                 ids_saved, everProcessed, everSent, hist, email_data,
                 priority_score, category, insertOrder,
                 stop_requested, emails, priority_levels,
                 check_interval,
                 elapsed_time,
                 sleep_time,
                 score_calls,
                 dpc,
                 digest_emails,
                 raw_email,
                 processed_email>>

\* a handler that lets the exception end the loop
exception_ends_loop == "halted"

\* where the loop is after the handler of the try block: at the sleep
after_cycle_exception == "sleep"

\* an exception escapes process_single_email or send_notifications_for_batch:
\* the handler of the try block prints it and the loop goes on to the sleep
CycleException ==
  /\ faults < MaxFaults
  /\ faults' = faults + 1
  /\ pc \in {"process", "notify"}
  /\ pc' = after_cycle_exception
  /\ raw_emails' = <<>>
  /\ new_emails_to_process' = <<>>
  /\ processed_this_cycle' = <<>>
  /\ nidx' = 1
  /\ notified_types' = {}
  /\ sendLog' = <<>>
  /\ UNCHANGED <<now, arrival, idsFile, ckFile, config, processed_ids,
                 start_time, last_check_ts, fetch_ok, ids_saved, everProcessed, everSent, hist, email_data,
                 priority_score, category, insertOrder,
                 stop_requested, emails, priority_levels,
                 check_interval,
                 elapsed_time,
                 sleep_time,
                 score_calls,
                 dpc,
                 digest_emails,
                 raw_email,
                 processed_email>>

\* time.sleep(max(15, check_interval - elapsed)), then the next cycle
Sleep ==
  /\ pc = "sleep"
  /\ now < MaxTime
  /\ now' = now + 1
  /\ pc' = "top"
  /\ start_time' = None
  /\ last_check_ts' = None
  /\ fetch_ok' = TRUE
  /\ ids_saved' = FALSE
  /\ UNCHANGED <<arrival, idsFile, ckFile, config, processed_ids, raw_emails,
                 new_emails_to_process, processed_this_cycle, nidx,
                 notified_types, sendLog, everProcessed, everSent, hist, email_data,
                 priority_score, category, insertOrder, faults,
                 stop_requested, emails, priority_levels,
                 check_interval,
                 elapsed_time,
                 sleep_time,
                 score_calls,
                 dpc,
                 digest_emails,
                 raw_email,
                 processed_email>>

\* the process is killed and started again: memory is lost, the files stay
Crash ==
  /\ faults < MaxFaults
  /\ faults' = faults + 1
  /\ pc # "boot"
  /\ pc' = "boot"
  /\ processed_ids' = {}
  /\ start_time' = None
  /\ last_check_ts' = None
  /\ raw_emails' = <<>>
  /\ new_emails_to_process' = <<>>
  /\ processed_this_cycle' = <<>>
  /\ nidx' = 1
  /\ notified_types' = {}
  /\ sendLog' = <<>>
  /\ fetch_ok' = TRUE
  /\ ids_saved' = FALSE
  /\ UNCHANGED <<now, arrival, idsFile, ckFile, config, everProcessed, everSent, hist, email_data,
                 priority_score, category, insertOrder,
                 stop_requested, emails, priority_levels,
                 check_interval,
                 elapsed_time,
                 sleep_time,
                 score_calls,
                 dpc,
                 digest_emails,
                 raw_email,
                 processed_email>>

Next ==
  \/ Arrive
  \/ Boot
  \/ FetchCycle
  \/ ProcessOne
  \/ NotifyOne
  \/ SaveIds
  \/ Trim
  \/ SaveCheckpoint
  \/ CycleException
  \/ Sleep
  \/ Crash

Spec == Init /\ [][Next]_vars

\* the same poller with the history of sends and insertions recorded
InitHist ==
  /\ now = 1
  /\ arrival = [m \in Ids |-> NotArrived]
  /\ idsFile = {}
  /\ ckFile = None
  /\ config = MonitorConfig
  /\ pc = "boot"
  /\ processed_ids = {}
  /\ start_time = None
  /\ last_check_ts = None
  /\ raw_emails = <<>>
  /\ new_emails_to_process = <<>>
  /\ processed_this_cycle = <<>>
  /\ nidx = 1
  /\ notified_types = {}
  /\ sendLog = <<>>
  /\ fetch_ok = TRUE
  /\ ids_saved = FALSE
  /\ everProcessed = {}
  /\ everSent = {}
  /\ insertOrder = <<>>
  /\ hist = TRUE
  /\ stop_requested = FALSE
  /\ email_data = None
  /\ priority_score = None
  /\ category = "low"
  /\ emails = <<>>
  /\ priority_levels = None
  /\ processed_email = None
  /\ raw_email = None
  /\ digest_emails = <<>>
  /\ dpc = "idle"
  /\ score_calls = [m \in Ids |-> 0]
  /\ sleep_time = None
  /\ elapsed_time = None
  /\ check_interval = None
  /\ faults = 0

SpecHist == InitHist /\ [][Next]_vars

\* ------------------------------------------------------------ router alone
\* send_notifications_for_batch on its own: any configuration, any batch of
\* processed messages
RECURSIVE Batches(_)
Batches(n) ==
  IF n = 0 THEN {<<>>}
  ELSE LET shorter == Batches(n - 1)
       IN  shorter \cup
           {Append(b, [id |-> n, priority_category |-> c]) :
              b \in {x \in shorter : Len(x) = n - 1}, c \in Categories}

InitRouter ==
  /\ now = 1
  /\ arrival = [m \in Ids |-> NotArrived]
  /\ idsFile = {}
  /\ ckFile = None
  /\ config \in RouterConfigs
  /\ pc = "notify"
  /\ processed_this_cycle \in Batches(MaxBatch) \ {<<>>}
  /\ processed_ids = {processed_this_cycle[i].id : i \in DOMAIN processed_this_cycle}
  /\ start_time = 1
  /\ last_check_ts = None
  /\ raw_emails = <<>>
  /\ new_emails_to_process = <<>>
  /\ nidx = 1
  /\ notified_types = {}
  /\ sendLog = <<>>
  /\ fetch_ok = TRUE
  /\ ids_saved = FALSE
  /\ everProcessed = processed_ids
  /\ everSent = {}
  /\ insertOrder = <<>>
  /\ hist = FALSE
  /\ stop_requested = FALSE
  /\ email_data = None
  /\ priority_score = None
  /\ category = "low"
  /\ emails = <<>>
  /\ priority_levels = None
  /\ processed_email = None
  /\ raw_email = None
  /\ digest_emails = <<>>
  /\ dpc = "idle"
  /\ score_calls = [m \in Ids |-> 0]
  /\ sleep_time = None
  /\ elapsed_time = None
  /\ check_interval = None
  /\ faults = 0

NextRouter == NotifyOne

SpecRouter == InitRouter /\ [][NextRouter]_vars

\* ------------------------------------------------------------ scoring alone
\* calculate_priority and the category assignment on their own: any annotated
\* message, any VIP list, keyword list and user address, default thresholds
Classifications ==
  {"Urgent Action", "Work", "Personal", "Promotion/Newsletter", "Spam", "Other"}

Intents == {"Request for Action", "Problem Report", "Meeting/Scheduling", "Other"}

Sentiments == {"Negative", "Neutral"}

\* lists of at most one string
Lists(S) == {<<>>} \cup {<<x>> : x \in S}

Emails ==
  { Email(c, i, s, a, from, subject, content, to) :
      c \in Classifications, i \in Intents, s \in Sentiments,
      a \in Lists({"item"}), from \in {<<"k">>},
      subject \in Strings(MaxLen), content \in Strings(MaxLen),
      to \in {<<>>, <<"k">>} }

\* what every llm_handler function returns when the service fails
ErrorResult == "Error: LLM failed"

\* the record process_single_email hands to calculate_priority when every
\* annotation call failed: the error string as classification, intent and
\* sentiment, and a one-element list holding it as action items
FailedEmails ==
  { Email(ErrorResult, ErrorResult, ErrorResult, <<ErrorResult>>,
          from, subject, content, to) :
      from \in {<<"k">>}, subject \in Strings(MaxLen),
      content \in Strings(MaxLen), to \in {<<>>, <<"k">>} }

ScoreConfigs ==
  { [MonitorConfig EXCEPT !.vip_contacts = v, !.custom_keywords = k,
                          !.user_email = u] :
      v \in Lists({<<"K">>, <<"K", "K">>}), k \in Lists(Strings(MaxLen) \ {<<>>}),
      u \in {<<>>, <<"K">>} }

InitIdle ==
  /\ now = 1
  /\ arrival = [m \in Ids |-> NotArrived]
  /\ idsFile = {}
  /\ ckFile = None
  /\ processed_ids = {}
  /\ start_time = None
  /\ last_check_ts = None
  /\ raw_emails = <<>>
  /\ new_emails_to_process = <<>>
  /\ processed_this_cycle = <<>>
  /\ nidx = 1
  /\ notified_types = {}
  /\ sendLog = <<>>
  /\ fetch_ok = TRUE
  /\ ids_saved = FALSE
  /\ everProcessed = {}
  /\ everSent = {}
  /\ insertOrder = <<>>
  /\ hist = FALSE
  /\ stop_requested = FALSE
  /\ faults = 0

InitScore ==
  /\ InitIdle
  /\ pc = "score"
  /\ config \in ScoreConfigs
  /\ email_data \in Emails \cup FailedEmails
  /\ priority_score = None
  /\ category = "low"
  /\ emails = <<>>
  /\ priority_levels = None
  /\ processed_email = None
  /\ raw_email = None
  /\ digest_emails = <<>>
  /\ dpc = "idle"
  /\ score_calls = [m \in Ids |-> 0]
  /\ sleep_time = None
  /\ elapsed_time = None
  /\ check_interval = None

\* calculate_priority, then the category assignment of process_single_email,
\* which reads the score back from the record
Score ==
  /\ pc = "score"
  /\ priority_score' = calculate_priority(email_data, config)
  /\ email_data' = scored_record(email_data, config)
  /\ category' = priority_category(email_data'.priority_score, config)
  /\ pc' = "scored"
  /\ UNCHANGED <<now, arrival, idsFile, ckFile, config, processed_ids,
                 start_time, last_check_ts, raw_emails, new_emails_to_process,
                 processed_this_cycle, nidx, notified_types, sendLog, fetch_ok,
                 ids_saved, everProcessed, everSent, insertOrder, hist, faults,
                 stop_requested, emails, priority_levels,
                 check_interval,
                 elapsed_time,
                 sleep_time,
                 score_calls,
                 dpc,
                 digest_emails,
                 raw_email,
                 processed_email>>

\* the same record scored and categorized a second time, by
\* process_single_email or by categorize_emails, which takes the score the
\* record carries
ScoreAgain ==
  /\ pc = "scored"
  /\ priority_score' = calculate_priority(email_data, config)
  /\ email_data' = scored_record(email_data, config)
  /\ category' \in {priority_category(email_data'.priority_score, config),
                    categorize_emails(email_data.priority_score, config)}
  /\ pc' = "rescored"
  /\ UNCHANGED <<now, arrival, idsFile, ckFile, config, processed_ids,
                 start_time, last_check_ts, raw_emails, new_emails_to_process,
                 processed_this_cycle, nidx, notified_types, sendLog, fetch_ok,
                 ids_saved, everProcessed, everSent, insertOrder, hist, faults,
                 stop_requested, emails, priority_levels,
                 check_interval,
                 elapsed_time,
                 sleep_time,
                 score_calls,
                 dpc,
                 digest_emails,
                 raw_email,
                 processed_email>>

NextScore == Score \/ ScoreAgain

SpecScore == InitScore /\ [][NextScore]_vars

\* ------------------------------------------------------- categorizing alone
\* the category assignment on its own: any score, any thresholds found in the
\* configuration, ascending or not
ThresholdChoices == {10, 20, 50, 75, 100}

MediumChoices == {10, 20, 30}

ThresholdConfigs ==
  { [MonitorConfig EXCEPT !.whatsapp_threshold = c, !.push_threshold = h,
                          !.medium_threshold = m] :
      c \in ThresholdChoices, h \in ThresholdChoices, m \in MediumChoices }

InitTier ==
  /\ InitIdle
  /\ pc = "tier"
  /\ config \in ThresholdConfigs
  /\ email_data = None
  /\ priority_score \in 0..MaxScore
  /\ category = "low"
  /\ emails = <<>>
  /\ priority_levels = None
  /\ processed_email = None
  /\ raw_email = None
  /\ digest_emails = <<>>
  /\ dpc = "idle"
  /\ score_calls = [m \in Ids |-> 0]
  /\ sleep_time = None
  /\ elapsed_time = None
  /\ check_interval = None

\* the score is categorized by process_single_email or by categorize_emails
Categorize ==
  /\ pc = "tier"
  /\ category' \in {priority_category(priority_score, config),
                    categorize_emails(priority_score, config)}
  /\ pc' = "tiered"
  /\ UNCHANGED <<now, arrival, idsFile, ckFile, config, processed_ids,
                 start_time, last_check_ts, raw_emails, new_emails_to_process,
                 processed_this_cycle, nidx, notified_types, sendLog, fetch_ok,
                 ids_saved, everProcessed, everSent, insertOrder, hist, faults,
                 email_data, priority_score,
                 stop_requested, emails, priority_levels,
                 check_interval,
                 elapsed_time,
                 sleep_time,
                 score_calls,
                 dpc,
                 digest_emails,
                 raw_email,
                 processed_email>>

NextTier == Categorize

SpecTier == InitTier /\ [][NextTier]_vars

\* ------------------------------------------- poller, any threshold setting
\* load_config hands the poller whatever config.json holds: the default
\* thresholds, a high threshold above the critical one, or one below medium
PollerConfigs ==
  { MonitorConfig,
    [MonitorConfig EXCEPT !.push_threshold = 100],
    [MonitorConfig EXCEPT !.push_threshold = 10] }

InitAnyConfig ==
  /\ InitIdle
  /\ pc = "boot"
  /\ config \in PollerConfigs
  /\ email_data = None
  /\ priority_score = None
  /\ category = "low"
  /\ emails = <<>>
  /\ priority_levels = None
  /\ processed_email = None
  /\ raw_email = None
  /\ digest_emails = <<>>
  /\ dpc = "idle"
  /\ score_calls = [m \in Ids |-> 0]
  /\ sleep_time = None
  /\ elapsed_time = None
  /\ check_interval = None

SpecAnyConfig == InitAnyConfig /\ [][Next]_vars

\* ------------------------------------------------ poller, loop kept going
\* the poller left running (no kill of the process) over a mailbox that
\* already holds its messages, with every step of the loop taken sooner or
\* later: each call of the cycle returns and the sleep ends
InitLive ==
  /\ now = 1
  /\ arrival = [m \in Ids |-> 1]
  /\ idsFile = {}
  /\ ckFile = None
  /\ processed_ids = {}
  /\ start_time = None
  /\ last_check_ts = None
  /\ raw_emails = <<>>
  /\ new_emails_to_process = <<>>
  /\ processed_this_cycle = <<>>
  /\ nidx = 1
  /\ notified_types = {}
  /\ sendLog = <<>>
  /\ fetch_ok = TRUE
  /\ ids_saved = FALSE
  /\ everProcessed = {}
  /\ everSent = {}
  /\ insertOrder = <<>>
  /\ hist = FALSE
  /\ stop_requested = FALSE
  /\ faults = 0
  /\ pc = "boot"
  /\ config = MonitorConfig
  /\ email_data = None
  /\ priority_score = None
  /\ category = "low"
  /\ emails = <<>>
  /\ priority_levels = None
  /\ processed_email = None
  /\ raw_email = None
  /\ digest_emails = <<>>
  /\ dpc = "idle"
  /\ score_calls = [m \in Ids |-> 0]
  /\ sleep_time = None
  /\ elapsed_time = None
  /\ check_interval = None

\* the steps of the loop itself; at every position exactly one is possible
LoopStep ==
  \/ Boot
  \/ FetchCycle
  \/ ProcessOne
  \/ NotifyOne
  \/ SaveIds
  \/ Trim
  \/ SaveCheckpoint
  \/ Sleep

NextLive ==
  \/ LoopStep
  \/ CycleException

SpecLive == InitLive /\ [][NextLive]_vars /\ WF_vars(LoopStep)

\* ------------------------------------------- poller, cycles that take time
\* the cycle takes time: the clock moves between the fetch and the write of
\* the checkpoint, so that the end of a cycle is later than its start
Tick ==
  /\ pc = "ckpt"
  /\ now < MaxTime
  /\ now' = now + 1
  /\ UNCHANGED <<arrival, idsFile, ckFile, config, pc, processed_ids,
                 start_time, last_check_ts, raw_emails, new_emails_to_process,
                 processed_this_cycle, nidx, notified_types, sendLog, fetch_ok,
                 ids_saved, everProcessed, everSent, hist, email_data,
                 priority_score, category, insertOrder, faults,
                 stop_requested, emails, priority_levels,
                 check_interval,
                 elapsed_time,
                 sleep_time,
                 score_calls,
                 dpc,
                 digest_emails,
                 raw_email,
                 processed_email>>

NextClock == Next \/ Tick

SpecClock == Init /\ [][NextClock]_vars

\* ------------------------------------------------- poller, asked to stop
\* the operator asks the running poller to stop; nothing in
\* start_email_monitoring looks at such a request
RequestStop ==
  /\ ~stop_requested
  /\ pc # "boot"
  /\ stop_requested' = TRUE
  /\ UNCHANGED <<now, arrival, idsFile, ckFile, config, pc, processed_ids,
                 start_time, last_check_ts, raw_emails, new_emails_to_process,
                 processed_this_cycle, nidx, notified_types, sendLog, fetch_ok,
                 ids_saved, everProcessed, everSent, insertOrder, hist, faults,
                 email_data, priority_score, category, emails,
                 priority_levels,
                 check_interval,
                 elapsed_time,
                 sleep_time,
                 score_calls,
                 dpc,
                 digest_emails,
                 raw_email,
                 processed_email>>

NextStop == Next \/ RequestStop

SpecStop == Init /\ [][NextStop]_vars

\* ------------------------------------------------ categorizing a batch
\* the record of a message with none of the keys calculate_priority reads
BareEmail == Email("Other", "Other", "Neutral", <<>>, <<>>, <<>>, <<>>, <<>>)

BatchScores == {NoScore, 0, 19, 20, 50, 75}

RECURSIVE ScoredBatches(_)
ScoredBatches(n) ==
  IF n = 0 THEN {<<>>}
  ELSE LET shorter == ScoredBatches(n - 1)
       IN  shorter \cup
           {Append(b, [BareEmail EXCEPT !.priority_score = sc]) :
              b \in {x \in shorter : Len(x) = n - 1}, sc \in BatchScores}

\* the score categorize_emails works with: the one the record carries, or the
\* one calculate_priority gives when the record carries none
score_of(email, cfg) ==
  IF email.priority_score = NoScore THEN calculate_priority(email, cfg)
  ELSE email.priority_score

\* groups chosen by four separate tests instead of one if/elif chain
tier_groups_separate_ifs(email, cfg) ==
  {"low"} \cup
  (IF score_of(email, cfg) >= cfg.whatsapp_threshold THEN {"critical"} ELSE {})
  \cup (IF score_of(email, cfg) >= cfg.push_threshold THEN {"high"} ELSE {})
  \cup (IF score_of(email, cfg) >= MediumThreshold THEN {"medium"} ELSE {})

\* the groups a message is appended to
tier_groups(email, cfg) == {categorize_emails(score_of(email, cfg), cfg)}

\* categorize_emails on a batch: the four lists of priority_levels
categorize_batch(batch, cfg) ==
  [t \in Tiers |-> SelectSeq(batch, LAMBDA e : t \in tier_groups(e, cfg))]

InitBatch ==
  /\ InitIdle
  /\ pc = "batch"
  /\ config \in PollerConfigs
  /\ email_data = None
  /\ priority_score = None
  /\ category = "low"
  /\ emails \in ScoredBatches(MaxBatch)
  /\ priority_levels = None
  /\ processed_email = None
  /\ raw_email = None
  /\ digest_emails = <<>>
  /\ dpc = "idle"
  /\ score_calls = [m \in Ids |-> 0]
  /\ sleep_time = None
  /\ elapsed_time = None
  /\ check_interval = None

CategorizeBatch ==
  /\ pc = "batch"
  /\ priority_levels' = categorize_batch(emails, config)
  /\ pc' = "categorized"
  /\ UNCHANGED <<now, arrival, idsFile, ckFile, config, processed_ids,
                 start_time, last_check_ts, raw_emails, new_emails_to_process,
                 processed_this_cycle, nidx, notified_types, sendLog, fetch_ok,
                 ids_saved, everProcessed, everSent, insertOrder, hist, faults,
                 email_data, priority_score, category, stop_requested, emails,
                 check_interval,
                 elapsed_time,
                 sleep_time,
                 score_calls,
                 dpc,
                 digest_emails,
                 raw_email,
                 processed_email>>

NextBatch == CategorizeBatch

SpecBatch == InitBatch /\ [][NextBatch]_vars

\* ------------------------------------------------- the sleep between cycles
\* a sleep of what is left of the interval, without a floor
sleep_unfloored(interval, elapsed) == interval - elapsed

\* sleep_time = max(15, check_interval - elapsed_time)
sleep_for(interval, elapsed) == Max2(SleepFloor, interval - elapsed)

\* the end of a cycle that took elapsed_time seconds, under any interval
InitSleep ==
  /\ InitIdle
  /\ pc = "cycle_end"
  /\ config = MonitorConfig
  /\ email_data = None
  /\ priority_score = None
  /\ category = "low"
  /\ emails = <<>>
  /\ check_interval \in 0..MaxInterval
  /\ elapsed_time \in 0..MaxElapsed
  /\ sleep_time = None
  /\ priority_levels = None
  /\ processed_email = None
  /\ raw_email = None
  /\ digest_emails = <<>>
  /\ dpc = "idle"
  /\ score_calls = [m \in Ids |-> 0]

ComputeSleep ==
  /\ pc = "cycle_end"
  /\ sleep_time' = sleep_for(check_interval, elapsed_time)
  /\ pc' = "sleeping"
  /\ UNCHANGED <<now, arrival, idsFile, ckFile, config, processed_ids,
                 start_time, last_check_ts, raw_emails, new_emails_to_process,
                 processed_this_cycle, nidx, notified_types, sendLog, fetch_ok,
                 ids_saved, everProcessed, everSent, insertOrder, hist, faults,
                 email_data, priority_score, category, stop_requested, emails,
                 priority_levels, check_interval, elapsed_time,
                 score_calls,
                 dpc,
                 digest_emails,
                 raw_email,
                 processed_email>>

NextSleep == ComputeSleep

SpecSleep == InitSleep /\ [][NextSleep]_vars

\* ------------------------------------------------ poller and digest task
\* a digest that records the messages it reports in the ledger file
run_digest_marks_processed(files, fetched) ==
  <<files[1] \cup {fetched[k] : k \in DOMAIN fetched}, files[2]>>

\* what run_digest does to the ledger file and the checkpoint file, given as
\* the pair of their contents: it opens neither
run_digest_files(files, fetched) == files

\* run_digest, first half: emails = fetch_emails_since(days=days); an empty
\* answer ends the run
DigestFetch ==
  /\ dpc = "idle"
  /\ \E ok \in BOOLEAN :
       \E r \in fetch_emails_since(now - DigestWindow, DigestLimit, ok) :
         /\ faults + r.failures <= MaxFaults
         /\ faults' = faults + r.failures
         /\ digest_emails' = r.emails
  /\ dpc' = IF digest_emails' = <<>> THEN "idle" ELSE "fetched"
  /\ UNCHANGED <<now, arrival, idsFile, ckFile, config, pc, processed_ids,
                 start_time, last_check_ts, raw_emails, new_emails_to_process,
                 processed_this_cycle, nidx, notified_types, sendLog, fetch_ok,
                 ids_saved, everProcessed, everSent, insertOrder, hist,
                 email_data, priority_score, category, stop_requested, emails,
                 priority_levels, check_interval, elapsed_time, sleep_time,
                 score_calls,
                 raw_email,
                 processed_email>>

\* run_digest, second half: the fetched records are scored and categorized in
\* the digest's own list and the digest is mailed; send_email_digest catches
\* what the mail server raises
DigestSend ==
  /\ dpc = "fetched"
  /\ \E sent \in BOOLEAN :
       /\ ~sent => faults < MaxFaults
       /\ faults' = faults + (IF sent THEN 0 ELSE 1)
  /\ idsFile' = run_digest_files(<<idsFile, ckFile>>, digest_emails)[1]
  /\ ckFile' = run_digest_files(<<idsFile, ckFile>>, digest_emails)[2]
  /\ digest_emails' = <<>>
  /\ dpc' = "idle"
  /\ UNCHANGED <<now, arrival, config, pc, processed_ids,
                 start_time, last_check_ts, raw_emails, new_emails_to_process,
                 processed_this_cycle, nidx, notified_types, sendLog, fetch_ok,
                 ids_saved, everProcessed, everSent, insertOrder, hist,
                 email_data, priority_score, category, stop_requested, emails,
                 priority_levels, check_interval, elapsed_time, sleep_time,
                 score_calls,
                 raw_email,
                 processed_email>>

\* the poller and the digest task side by side, in any order of their steps
NextDigest ==
  \/ NextLive
  \/ DigestFetch
  \/ DigestSend

SpecDigest == InitLive /\ [][NextDigest]_vars

\* ------------------------------------------- processing one message alone
\* the fetched record of a message: its id and the header and body text
RawEmails ==
  { [id |-> m, from |-> f, subject |-> subject, content |-> content, to |-> to] :
      m \in Ids, f \in {<<"k">>}, subject \in Strings(MaxLen),
      content \in Strings(MaxLen), to \in {<<>>, <<"k">>} }

\* what the four annotation calls can return for a message: labels, or the
\* error string of a failed call
Annotations ==
  { [classification |-> c, intent |-> i, sentiment |-> s, action_items |-> a] :
      c \in {"Urgent Action", "Spam"}, i \in {"Request for Action", "Other"},
      s \in {"Negative", "Neutral"}, a \in {<<>>, <<"item">>} }
  \cup { [classification |-> ErrorResult, intent |-> ErrorResult,
          sentiment |-> ErrorResult, action_items |-> <<ErrorResult>>] }

\* where an exception is raised inside the try block, if at all
RaisePoints == {"none", "before_scoring", "after_scoring"}

\* processed_data as calculate_priority gets it
annotated(raw, ann) ==
  Email(ann.classification, ann.intent, ann.sentiment, ann.action_items,
        raw.from, raw.subject, raw.content, raw.to)

\* the record process_single_email returns.  Without an exception: the score
\* calculate_priority stored and the tier of lines 213-222.  With one: the
\* category Error and the score already stored, or 0 when none was.
processed_record(raw, ann, raise_at, cfg) ==
  LET score == calculate_priority(annotated(raw, ann), cfg)
  IN  [id |-> raw.id, from |-> raw.from, subject |-> raw.subject,
       content |-> raw.content, to |-> raw.to,
       priority_score |-> IF raise_at = "before_scoring" THEN 0 ELSE score,
       priority_category |->
         IF raise_at = "none" THEN priority_category(score, cfg) ELSE "Error"]

\* a function that fills in the caller's dictionary instead of a copy
caller_record_aliased(raw, processed) == processed

\* the caller's dictionary after the call: process_single_email assigns only
\* to keys of processed_data = raw_email.copy()
caller_record(raw, processed) == raw

InitProcess ==
  /\ InitIdle
  /\ pc = "process_one"
  /\ config \in ScoreConfigs
  /\ raw_email \in RawEmails
  /\ processed_email = None
  /\ email_data = None
  /\ priority_score = None
  /\ category = "low"
  /\ emails = <<>>
  /\ check_interval = None
  /\ elapsed_time = None
  /\ sleep_time = None
  /\ score_calls = [m \in Ids |-> 0]
  /\ dpc = "idle"
  /\ digest_emails = <<>>
  /\ priority_levels = None

Process ==
  /\ pc = "process_one"
  /\ \E ann \in Annotations, raise_at \in RaisePoints :
       /\ processed_email' = processed_record(raw_email, ann, raise_at, config)
       /\ raw_email' = caller_record(raw_email, processed_email')
  /\ pc' = "processed"
  /\ UNCHANGED <<now, arrival, idsFile, ckFile, config, processed_ids,
                 start_time, last_check_ts, raw_emails, new_emails_to_process,
                 processed_this_cycle, nidx, notified_types, sendLog, fetch_ok,
                 ids_saved, everProcessed, everSent, insertOrder, hist, faults,
                 email_data, priority_score, category, stop_requested, emails,
                 priority_levels, check_interval, elapsed_time, sleep_time,
                 score_calls, dpc, digest_emails>>

NextProcess == Process

SpecProcess == InitProcess /\ [][NextProcess]_vars

\* ------------------------------------------------ the two categorizers
\* one score under one configuration, categorized by process_single_email and,
\* as the only message of a batch, by categorize_emails
InitBoth ==
  /\ InitIdle
  /\ pc = "both"
  /\ config \in ThresholdConfigs
  /\ email_data = None
  /\ priority_score \in 0..MaxScore
  /\ category = "low"
  /\ emails = <<>>
  /\ check_interval = None
  /\ elapsed_time = None
  /\ sleep_time = None
  /\ score_calls = [m \in Ids |-> 0]
  /\ dpc = "idle"
  /\ digest_emails = <<>>
  /\ raw_email = None
  /\ processed_email = None
  /\ priority_levels = None

CategorizeBoth ==
  /\ pc = "both"
  /\ category' = priority_category(priority_score, config)
  /\ emails' = <<[BareEmail EXCEPT !.priority_score = priority_score]>>
  /\ priority_levels' = categorize_batch(emails', config)
  /\ pc' = "both_done"
  /\ UNCHANGED <<now, arrival, idsFile, ckFile, config, processed_ids,
                 start_time, last_check_ts, raw_emails, new_emails_to_process,
                 processed_this_cycle, nidx, notified_types, sendLog, fetch_ok,
                 ids_saved, everProcessed, everSent, insertOrder, hist, faults,
                 email_data, priority_score, stop_requested,
                 check_interval, elapsed_time, sleep_time, score_calls, dpc,
                 digest_emails, raw_email, processed_email>>

NextBoth == CategorizeBoth

SpecBoth == InitBoth /\ [][NextBoth]_vars

\* ------------------------------------------------------------------ claims
\* sends of channel ch made for entry i of the batch in the current pass
SendsForEntry(i, ch) ==
  {k \in DOMAIN sendLog :
     sendLog[k].i = i /\ sendLog[k].ch = ch /\ sendLog[k].res # "skipped"}

\* sends of channel ch made for message id in the current cycle
SendsForId(id, ch) ==
  {k \in DOMAIN sendLog :
     sendLog[k].id = id /\ sendLog[k].ch = ch /\ sendLog[k].res # "skipped"}

Evaluated(i, ch) ==
  \E k \in DOMAIN sendLog : sendLog[k].i = i /\ sendLog[k].ch = ch

PassFinished == pc = "save" /\ processed_this_cycle # <<>>

\* C1: a message still waiting for process_single_email has an id that was not
\* in the ledger when the fetched batch was filtered: if its id is in the
\* ledger now, this cycle's processing loop put it there.
C1_FilteredBeforeProcessing ==
  pc = "process" =>
    \A k \in (Len(processed_this_cycle) + 1)..Len(new_emails_to_process) :
      new_emails_to_process[k] \in processed_ids =>
        \E j \in DOMAIN processed_this_cycle :
          processed_this_cycle[j].id = new_emails_to_process[k]

\* a fetched batch holding an id of the ledger next to a new id: the first is
\* dropped, the second goes on to processing
C1_Witness ==
  /\ pc = "process"
  /\ processed_this_cycle = <<>>
  /\ \E k \in DOMAIN raw_emails :
       /\ raw_emails[k] \in processed_ids
       /\ \A j \in DOMAIN new_emails_to_process :
            new_emails_to_process[j] # raw_emails[k]

\* C2: for every entry of the batch and every channel, the channel's send
\* function is called at most once in the pass, whatever it returns.
C2_AtMostOneSendPerEntry ==
  \A i \in DOMAIN processed_this_cycle : \A ch \in Channels :
    Cardinality(SendsForEntry(i, ch)) <= 1

\* a finished pass in which one send returned False and another got through
C2_Witness ==
  /\ PassFinished
  /\ \E k \in DOMAIN sendLog :
       sendLog[k].res = "failed" /\ config.enabled[sendLog[k].ch]
  /\ \E k \in DOMAIN sendLog : sendLog[k].res = "sent"

\* C3: within one cycle every channel's send is called at most once for each
\* message id.
C3_AtMostOneSendPerId ==
  \A id \in Ids : \A ch \in Channels : Cardinality(SendsForId(id, ch)) <= 1

\* C4: with the transport working, a channel sends for a message exactly when
\* the channel is enabled and the message's tier is in its trigger set.
C4_SentIffEnabledAndTriggered ==
  faults = 0 =>
    \A i \in 1..(nidx - 1) : \A ch \in Channels :
      (\E k \in SendsForEntry(i, ch) : sendLog[k].res = "sent")
        <=> (/\ config.enabled[ch]
             /\ processed_this_cycle[i].priority_category \in config.notify_for[ch])

\* C5: when the pass is over, every channel has been evaluated for every
\* message of the batch, whatever the sends before it returned or raised.
C5_EveryChannelEvaluated ==
  PassFinished =>
    \A i \in DOMAIN processed_this_cycle : \A ch \in Channels : Evaluated(i, ch)

\* a finished pass over two messages in which, for the first, the instant
\* message send failed on an enabled channel and the email alert raised
C5_Witness ==
  /\ PassFinished
  /\ Len(processed_this_cycle) = 2
  /\ config.enabled["whatsapp"]
  /\ \E k \in DOMAIN sendLog :
       sendLog[k].i = 1 /\ sendLog[k].ch = "whatsapp" /\ sendLog[k].res = "failed"
  /\ \E k \in DOMAIN sendLog : sendLog[k].i = 1 /\ sendLog[k].res = "raised"

\* C6: the checkpoint file changes only in the last statement of a cycle, and
\* then to a later time (no checkpoint counting as earlier than every time).
C6_CheckpointOnlyAdvances ==
  [][ckFile' # ckFile => (pc = "ckpt" /\ ckFile' > ckFile)]_vars

\* C7: a cycle whose fetch failed ends with the checkpoint it started with.
C7_FetchFailureKeepsCheckpoint ==
  (pc = "sleep" /\ ~fetch_ok) => get_last_check_time(ckFile) = last_check_ts

\* C8: a cycle that ends without a completed ledger save ends with the
\* checkpoint it started with.
C8_FailedSaveKeepsCheckpoint ==
  (pc = "sleep" /\ ~ids_saved) => get_last_check_time(ckFile) = last_check_ts

\* C9: the ledger never holds the id of a message of the current batch that
\* send_notifications_for_batch has not routed yet.
C9_LedgerOnlyAfterDispatch ==
  pc \in {"process", "notify"} =>
    \A i \in DOMAIN processed_this_cycle :
      (pc = "process" \/ i >= nidx) => processed_this_cycle[i].id \notin processed_ids

\* C10: in a run without any failure, the checkpoint is never later than the
\* arrival of a message that process_single_email has not run for.
C10_CheckpointNeverPassesUnprocessed ==
  faults = 0 =>
    \A m \in Ids :
      (arrival[m] # NotArrived /\ arrival[m] < get_last_check_time(ckFile))
        => m \in everProcessed

\* C11: in a run without any failure, no step of the router sends on a channel
\* for a message id that an earlier send on that channel already got through
\* for, whatever cycles, trims and overlapping fetch windows lie in between.
C11_NoRepeatAcrossRun ==
  [][faults' = 0 =>
       \A k \in (Len(sendLog) + 1)..Len(sendLog') :
         sendLog'[k].res = "sent" =>
           <<sendLog'[k].id, sendLog'[k].ch>> \notin everSent]_vars

\* the ids of the ledger in insertion order, and its n latest insertions
LedgerInOrder == SelectSeq(insertOrder, LAMBDA x : x \in processed_ids)

MostRecent(n) ==
  LET L == LedgerInOrder
  IN  {L[k] : k \in {j \in DOMAIN L : j > Len(L) - n}}

\* C12: in a run without any failure, a trim of a ledger above the retention
\* cap leaves exactly the TrimKeep most recently inserted ids.
C12_TrimKeepsMostRecent ==
  [][(pc = "trim" /\ Cardinality(processed_ids) > TrimCap /\ faults' = 0)
       => processed_ids' = MostRecent(TrimKeep)]_vars

\* C13: in every step of the running poller (a restart of the process, which
\* builds the ledger anew from its file, aside) the ids of the in-memory
\* ledger stay in it, unless the step is the trim of a ledger above TrimCap.
C13_RemovedOnlyByTrim ==
  [][pc' # "boot" =>
       \/ processed_ids \subseteq processed_ids'
       \/ pc = "trim" /\ Cardinality(processed_ids) > TrimCap]_vars

\* a run without failures in which the trim has just dropped an id
C13_Witness ==
  /\ pc = "ckpt"
  /\ faults = 0
  /\ Cardinality(processed_ids) = TrimKeep
  /\ everProcessed \ processed_ids # {}

\* C14: every score calculate_priority returns is at least 0.
C14_ScoreNonNegative == pc = "scored" => priority_score >= 0

\* the all-negative combination: spam, no VIP, no keyword, not addressed to the
\* user, no action item; its sum is below 0
C14_Witness ==
  /\ pc = "scored"
  /\ email_data.classification \in {"Spam", "Promotion/Newsletter"}
  /\ base_score(email_data, config) < 0
  /\ priority_score = 0

\* the signals of a message as the score table names them, letter case aside
IsVipSender(e, cfg) ==
  \E j \in DOMAIN cfg.vip_contacts :
    Contains(Lower(e.from), Lower(cfg.vip_contacts[j]))

KeywordIn(text, cfg) ==
  \E j \in DOMAIN cfg.custom_keywords :
    Contains(Lower(text), Lower(cfg.custom_keywords[j]))

DirectlyAddressed(e, cfg) ==
  cfg.user_email # <<>> /\ Contains(Lower(e.to), Lower(cfg.user_email))

\* the score of the table: max(0, C + V + I + K + D + A)
TableScore(e, cfg) ==
  LET C == CASE e.classification = "Urgent Action" -> 40
             [] e.classification = "Work" -> 10
             [] e.classification = "Personal" -> 5
             [] e.classification \in {"Promotion/Newsletter", "Spam"} -> -10
             [] OTHER -> 0
      V == IF ~IsVipSender(e, cfg) THEN 0
           ELSE IF e.sentiment = "Negative" THEN 50 ELSE 40
      I == CASE e.intent = "Request for Action" -> 15
             [] e.intent = "Problem Report" -> 10
             [] e.intent = "Meeting/Scheduling" -> 5
             [] OTHER -> 0
      K == IF KeywordIn(e.subject, cfg) THEN 15
           ELSE IF KeywordIn(e.content, cfg) THEN 10 ELSE 0
      D == IF DirectlyAddressed(e, cfg) THEN 5 ELSE 0
      A == IF Len(e.action_items) >= 1 THEN 5 ELSE 0
      sum == C + V + I + K + D + A
  IN  IF sum < 0 THEN 0 ELSE sum

\* C15: the score of every message is the clamped sum of the six terms of the
\* table, the keyword term being 15 for a custom keyword in the subject, else
\* 10 for one in the body, else 0.
C15_ScoreIsTableSum ==
  pc = "scored" => priority_score = TableScore(email_data, config)

\* C16: urgent action from a VIP sender with negative sentiment and no other
\* signal scores exactly 90 and is critical under the default thresholds.
C16_ScenarioA ==
  (/\ pc = "scored"
   /\ email_data.classification = "Urgent Action"
   /\ IsVipSender(email_data, config)
   /\ email_data.sentiment = "Negative"
   /\ email_data.intent = "Other"
   /\ ~KeywordIn(email_data.subject, config)
   /\ ~KeywordIn(email_data.content, config)
   /\ ~DirectlyAddressed(email_data, config)
   /\ email_data.action_items = <<>>)
  => (priority_score = 90 /\ category = "critical")

C16_Witness ==
  /\ pc = "scored"
  /\ email_data.classification = "Urgent Action"
  /\ IsVipSender(email_data, config)
  /\ email_data.sentiment = "Negative"
  /\ email_data.intent = "Other"
  /\ ~KeywordIn(email_data.subject, config)
  /\ ~KeywordIn(email_data.content, config)
  /\ ~DirectlyAddressed(email_data, config)
  /\ email_data.action_items = <<>>
  /\ config.whatsapp_threshold = DefaultCritical
  /\ priority_score = 90

Rank(tier) ==
  CASE tier = "critical" -> 3
    [] tier = "high" -> 2
    [] tier = "medium" -> 1
    [] OTHER -> 0

Ascending(cfg) ==
  MediumThreshold < cfg.push_threshold
  /\ cfg.push_threshold < cfg.whatsapp_threshold

\* C17: whatever thresholds the configuration holds, a score gets one of the
\* four tiers, and no lower score gets a more urgent tier.
C17_OneTierMonotonic ==
  pc = "tiered" =>
    /\ category \in Tiers
    /\ \A s1 \in 0..priority_score :
         /\ Rank(priority_category(s1, config)) <= Rank(category)
         /\ Rank(categorize_emails(s1, config)) <= Rank(category)

\* a score above both thresholds under a configuration whose high threshold is
\* above its critical threshold
C17_Witness ==
  /\ pc = "tiered"
  /\ config.push_threshold > config.whatsapp_threshold
  /\ priority_score >= config.push_threshold
  /\ category = "critical"

\* C18: with ascending thresholds, a score equal to a threshold gets that
\* threshold's tier and a score one below it gets the tier below.
C18_BoundariesInclusive ==
  (pc = "tiered" /\ Ascending(config)) =>
    /\ priority_score = config.whatsapp_threshold => category = "critical"
    /\ priority_score = config.whatsapp_threshold - 1 => category = "high"
    /\ priority_score = config.push_threshold => category = "high"
    /\ priority_score = config.push_threshold - 1 => category = "medium"
    /\ priority_score = MediumThreshold => category = "medium"
    /\ priority_score = MediumThreshold - 1 => category = "low"

C18_Witness ==
  /\ pc = "tiered"
  /\ Ascending(config)
  /\ priority_score = config.push_threshold
  /\ category = "high"

\* C19: a score below the high and critical thresholds is medium exactly when
\* it is at least the medium threshold of the configuration.
C19_MediumConfigurable ==
  (/\ pc = "tiered"
   /\ priority_score < config.push_threshold
   /\ priority_score < config.whatsapp_threshold)
  => (category = "medium" <=> priority_score >= config.medium_threshold)

\* C20: under thresholds that are not ascending the poller categorizes no
\* message.
C20_NoCycleUnderBadThresholds ==
  ~Ascending(config) => (processed_this_cycle = <<>> /\ everProcessed = {})

\* C21: scoring and categorizing a record a second time, under the same
\* configuration, gives the score and the tier of the first time.
C21_SameScoreAndTierTwice ==
  [][(pc = "scored" /\ pc' = "rescored")
       => (priority_score' = priority_score /\ category' = category)]_vars

\* a record with a positive score scored twice
C21_Witness ==
  /\ pc = "rescored"
  /\ priority_score > 0
  /\ email_data.priority_score = priority_score

\* C22: calculate_priority leaves the message record it was given as it was.
C22_RecordUnchanged ==
  [][(pc = "score" /\ pc' = "scored") => email_data' = email_data]_vars

\* C23: when process_single_email meets an exception for a message, the loop
\* goes on to the next message or to the notification of the batch; and when
\* the notification of the batch is over, every new message of the cycle has
\* been processed and every channel evaluated for it.
C23_ErrorDoesNotAbortCycle ==
  [][/\ (/\ pc = "process"
         /\ Len(processed_this_cycle') = Len(processed_this_cycle) + 1
         /\ processed_this_cycle'[Len(processed_this_cycle')].priority_category
              = "Error")
        => pc' = (IF Len(processed_this_cycle') = Len(new_emails_to_process)
                  THEN "notify" ELSE "process")
     /\ (pc = "notify" /\ pc' = "save")
        => /\ Len(processed_this_cycle) = Len(new_emails_to_process)
           /\ \A i \in DOMAIN processed_this_cycle : \A ch \in Channels :
                \E k \in DOMAIN sendLog' :
                  sendLog'[k].i = i /\ sendLog'[k].ch = ch]_vars

\* a batch of two whose first message met an exception, at the ledger save:
\* the second was processed, rated critical and sent
C23_Witness ==
  /\ PassFinished
  /\ Len(processed_this_cycle) = 2
  /\ processed_this_cycle[1].priority_category = "Error"
  /\ processed_this_cycle[2].priority_category = "critical"
  /\ \E k \in DOMAIN sendLog : sendLog[k].i = 2 /\ sendLog[k].res = "sent"

\* C24: a message whose annotation failed altogether is scored with the
\* sender, keyword and direct-addressing terms alone.
C24_DegradedScore ==
  (/\ pc = "scored"
   /\ email_data.classification = ErrorResult
   /\ email_data.intent = ErrorResult
   /\ email_data.sentiment = ErrorResult
   /\ email_data.action_items = <<ErrorResult>>)
  => priority_score =
       (IF IsVipSender(email_data, config) THEN 40 ELSE 0)
       + KeywordTerm(email_data.subject, email_data.content,
                     config.custom_keywords)
       + (IF DirectlyAddressed(email_data, config) THEN 5 ELSE 0)

\* C25: once the poller has been asked to stop, it starts no further cycle.
C25_NoCycleAfterStop ==
  [][stop_requested => ~(pc = "top" /\ pc' \in {"process", "save"})]_vars

\* C27: the four groups categorize_emails returns hold every message of the
\* batch exactly once: their sizes sum to the size of the batch and every
\* message is in the group of its tier and in no other.
C27_EveryMessageInOneGroup ==
  pc = "categorized" =>
    /\ Len(priority_levels["critical"]) + Len(priority_levels["high"])
         + Len(priority_levels["medium"]) + Len(priority_levels["low"])
       = Len(emails)
    /\ \A i \in DOMAIN emails :
         Cardinality({t \in Tiers :
                        \E j \in DOMAIN priority_levels[t] :
                          priority_levels[t][j] = emails[i]}) = 1

\* a batch of a critical and a low message, categorized
C27_Witness ==
  /\ pc = "categorized"
  /\ Len(emails) = 2
  /\ Len(priority_levels["critical"]) = 1
  /\ Len(priority_levels["low"]) = 1

\* C26: a cycle, whatever failed in it, comes to the sleep, and after the
\* sleep (as long as the clock of the model runs) a new cycle starts.
C26_AlwaysAnotherCycle ==
  /\ (pc \in {"process", "notify", "save", "trim", "ckpt"}) ~> (pc = "sleep")
  /\ (pc = "sleep" /\ now < MaxTime) ~> (pc \in {"process", "save"})

\* a cycle that started after two failures
C26_Witness ==
  /\ pc \in {"process", "save"}
  /\ now > 1
  /\ start_time = now
  /\ faults = MaxFaults

\* C28: a save of the ledger leaves the file with either what it held before
\* or the complete set that was being saved, as load_processed_ids reads it.
C28_SaveLeavesOldOrNewLedger ==
  [][(pc = "save" \/ pc = "trim") =>
       (load_processed_ids(idsFile') = load_processed_ids(idsFile)
          \/ load_processed_ids(idsFile') = processed_ids')]_vars

\* C29: a save that did not reach the file leaves the loop at its next
\* statement with the ledger in memory as it was, every fetch of the loop
\* keeps only messages whose id is not in that ledger, and a save that
\* succeeds writes the whole of it.
C29_FailedSaveKeepsLedger ==
  [][((pc = "save" /\ pc' # "boot" /\ ~ids_saved') =>
        (pc' = "trim" /\ processed_ids' = processed_ids))
     /\ ((pc = "save" /\ ids_saved') =>
           load_processed_ids(idsFile') = processed_ids)
     /\ ((pc = "top" /\ pc' \in {"process", "save"}) =>
           (processed_ids' = processed_ids
              /\ \A k \in DOMAIN new_emails_to_process' :
                    new_emails_to_process'[k] \notin processed_ids))]_vars

\* a later cycle, after a save that failed, has fetched a message whose id is
\* in the ledger in memory but not in the file, has filtered it out and is at
\* its save
C29_Witness ==
  /\ pc = "save"
  /\ now > 1
  /\ new_emails_to_process = <<>>
  /\ \E k \in DOMAIN raw_emails :
       raw_emails[k] \in processed_ids \ load_processed_ids(idsFile)

\* C30: a cycle that ends with its checkpoint written leaves in the file the
\* time taken at the top of that cycle, and the window the next fetch computes
\* from it holds every message that arrived from that time on.
C30_CheckpointIsCycleStart ==
  [][(pc = "ckpt" /\ pc' = "sleep" /\ faults' = faults) =>
       (get_last_check_time(ckFile') = start_time
          /\ \A m \in Ids :
               (arrival[m] # NotArrived /\ arrival[m] >= start_time) =>
                 arrival[m] >= get_last_check_time(ckFile') - Overlap)]_vars

\* a cycle has ended later than it started, its checkpoint holds the start,
\* and a message that arrived after the start is in the mailbox unprocessed
C30_Witness ==
  /\ pc = "sleep"
  /\ start_time # None
  /\ now > start_time
  /\ get_last_check_time(ckFile) = start_time
  /\ \E m \in Ids : arrival[m] > start_time /\ m \notin processed_ids

SeqRange(L) == {L[k] : k \in DOMAIN L}

\* C31: a cycle that finds a checkpoint fetches only messages that arrived at
\* or after the checkpoint less the overlap, all of them when nothing fails
\* and they fit in one listing, and hands on for processing none whose id is
\* in the ledger.
C31_OverlapWindowFiltered ==
  [][(pc = "top" /\ (pc' = "process" \/ pc' = "save")
        /\ get_last_check_time(ckFile) # None) =>
       LET W == InWindow(get_last_check_time(ckFile) - Overlap)
       IN  (SeqRange(raw_emails') \subseteq W
              /\ ((faults' = faults /\ Cardinality(W) <= FetchLimit) =>
                    SeqRange(raw_emails') = W)
              /\ SeqRange(new_emails_to_process') \cap processed_ids = {})]_vars

\* a fetch has brought back a message that arrived before the checkpoint, in
\* the overlap, whose id is in the ledger, and has not handed it on
C31_Witness ==
  /\ pc \in {"process", "save"}
  /\ last_check_ts # None
  /\ \E k \in DOMAIN raw_emails :
       /\ arrival[raw_emails[k]] < last_check_ts
       /\ raw_emails[k] \in processed_ids
       /\ raw_emails[k] \notin SeqRange(new_emails_to_process)

\* C32: the sleep handed to time.sleep is never below the floor, is the rest of
\* the interval when that rest is at least the floor, and is the floor
\* otherwise.
C32_SleepIsFlooredRest ==
  pc = "sleeping" =>
    /\ sleep_time >= SleepFloor
    /\ (check_interval - elapsed_time >= SleepFloor =>
          sleep_time = check_interval - elapsed_time)
    /\ (check_interval - elapsed_time < SleepFloor => sleep_time = SleepFloor)

\* a cycle that overran its interval, put to sleep for the floor
C32_Witness ==
  /\ pc = "sleeping"
  /\ elapsed_time > check_interval
  /\ sleep_time = SleepFloor

\* C33: once the processing loop of a cycle is over, calculate_priority has
\* been called exactly once in that cycle for every message of its batch, and
\* routing the batch and the steps after it add no call.
C33_ScoredExactlyOnce ==
  (pc \in {"notify", "save"} /\ processed_this_cycle # <<>>) =>
    \A k \in DOMAIN processed_this_cycle :
      score_calls[processed_this_cycle[k].id] = 1

\* C34: no step of the digest task changes the ledger file or the checkpoint
\* file, and every step that changes one of them is a save of the poller.
C34_DigestWritesNeitherFile ==
  [][((dpc' # dpc) => (idsFile' = idsFile /\ ckFile' = ckFile))
     /\ ((idsFile' # idsFile \/ ckFile' # ckFile) =>
           (pc \in {"save", "trim", "ckpt"} /\ dpc' = dpc))]_vars

\* the digest has fetched its messages while the poller stands in front of its
\* ledger save with ids the file does not hold
C34_Witness ==
  /\ dpc = "fetched"
  /\ pc = "save"
  /\ processed_ids # load_processed_ids(idsFile)
  /\ \E k \in DOMAIN digest_emails : digest_emails[k] \in processed_ids

\* the ids process_single_email has run for in the current cycle
ProcessedInCycle == {m \in Ids : score_calls[m] > 0}

\* C35: in a run without any failure, whenever the checkpoint file holds the
\* start time of the current cycle, the ledger file holds every id that the
\* cycle processed (a cycle processing no more ids than a trim keeps).
C35_LedgerSavedBeforeCheckpoint ==
  (faults = 0 /\ start_time # None
     /\ get_last_check_time(ckFile) = start_time
     /\ Cardinality(ProcessedInCycle) <= TrimKeep) =>
    ProcessedInCycle \subseteq load_processed_ids(idsFile)

\* C36: for every routed message of a batch, each channel whose trigger set
\* holds the message's tier has had its send called for that message, whatever
\* fired for the messages before it.
C36_FiredSetIsPerMessage ==
  \A i \in 1..(nidx - 1) : \A ch \in Channels :
    processed_this_cycle[i].priority_category \in config.notify_for[ch] =>
      SendsForEntry(i, ch) # {}

\* one channel has sent for the first and for the second message of a batch
C36_Witness ==
  /\ nidx = 3
  /\ \E ch \in Channels :
       /\ \E k \in SendsForEntry(1, ch) : sendLog[k].res = "sent"
       /\ \E k \in SendsForEntry(2, ch) : sendLog[k].res = "sent"

\* C37: a call of process_single_email leaves the record it was given as it
\* was and returns a record with the same id, a score and a category among
\* the four tiers and Error, whatever the annotation returned and wherever an
\* exception was raised.
C37_InputKeptOutputComplete ==
  [][(pc = "process_one") =>
       (raw_email' = raw_email
          /\ processed_email'.id = raw_email.id
          /\ processed_email'.priority_score \in 0..MaxScore
          /\ processed_email'.priority_category \in Tiers \cup {"Error"})]_vars

\* a call in which an exception was raised before the score was calculated
C37_Witness ==
  /\ pc = "processed"
  /\ processed_email.priority_category = "Error"
  /\ processed_email.priority_score = 0
  /\ processed_email.id = raw_email.id

\* C38: the group categorize_emails puts a message in is the one named by the
\* tier process_single_email gives the message's score, under every
\* configuration of the thresholds.
C38_CategorizersAgree ==
  pc = "both_done" =>
    /\ priority_levels[category] = emails
    /\ \A t \in Tiers \ {category} : priority_levels[t] = <<>>

\* a score equal to the high threshold, high for both
C38_Witness ==
  /\ pc = "both_done"
  /\ priority_score = config.push_threshold
  /\ category = "high"
  /\ priority_levels["high"] = emails

\* the entries of the batch whose processing raised an exception
ErrorEntries ==
  {j \in DOMAIN processed_this_cycle :
     processed_this_cycle[j].priority_category = "Error"}

\* C39: a message of the batch whose processing raised an exception has its id
\* in the ledger, no channel's send is called for it, and no message still
\* waiting for process_single_email in this cycle carries its id.
C39_ErrorMessageRecordedNotRetried ==
  \A j \in ErrorEntries :
    /\ processed_this_cycle[j].id \in processed_ids
    /\ \A ch \in Channels : SendsForEntry(j, ch) = {}
    /\ pc = "process" =>
         \A k \in (Len(processed_this_cycle) + 1)..Len(new_emails_to_process) :
           new_emails_to_process[k] # processed_this_cycle[j].id

\* C40: the trim step of a cycle leaves the in-memory ledger with at most
\* TrimCap ids, and with exactly TrimKeep ids when the trim ran.
C40_LedgerBoundedAfterTrim ==
  [][(pc = "trim" /\ pc' = "ckpt") =>
       (Cardinality(processed_ids') <= TrimCap
          /\ (Cardinality(processed_ids) > TrimCap =>
                Cardinality(processed_ids') = TrimKeep))]_vars

\* a cycle in which the trim ran, at its checkpoint write
C40_Witness ==
  /\ pc = "ckpt"
  /\ Cardinality(processed_ids) = TrimKeep
  /\ Cardinality(load_processed_ids(idsFile)) = TrimKeep
  /\ Cardinality(everProcessed) > TrimCap
====
